---- MODULE Spec2Model ----
(***************************************************************************)
(* Model of mapillary_client: the region download of Downloader            *)
(* (download.py), the sequence fetch of EntitiesAPI (api.py) and the       *)
(* dedup registry of sequence ids.                                         *)
(*                                                                         *)
(* Three specifications share the variables:                               *)
(*   Spec      one download_region run on a fresh Downloader               *)
(*   SpecReg   a series of _update_registry calls on one registry          *)
(*   SpecConc  NumTasks coroutines doing the locked register step          *)
(***************************************************************************)
EXTENDS Integers, Sequences, FiniteSets, TLC

\* ---------------------------------------------------------------- bounds
MaxTiles == 2      \* tiles the enumeration of the bounding box may yield
MaxCov == 2        \* features in one tile's coverage response
MaxChunks == 2     \* largest configured chunk size (Downloader(chunks=...))
MaxImages == 2     \* images a sequence listing may hold
MaxCalls == 3      \* _update_registry calls in SpecReg
MaxLen == 3        \* candidates in one _update_registry call of SpecReg
NumTasks == 3      \* concurrent coroutines in SpecConc
MaxM == 4          \* new sequence ids of a tile in SpecChunk
MaxK == 3          \* largest chunk size in SpecChunk
NumScopes == 3     \* with_secrets scopes in SpecKeeper
MaxRuns == 2       \* download_region calls on one Downloader in SpecTwo
MaxRecords == 2    \* image records of the sequence in SpecSave
MaxSaveCalls == 2  \* _save_sequence calls for the sequence in SpecSave

SeqIds == {"s1", "s2", "s3"}

SeqsUpTo(S, n) == UNION {[1..k -> S] : k \in 0..n}

\* the decoded coverage of a tile: the list of features[i].properties.id
Coverages == SeqsUpTo(SeqIds, MaxCov)

Range(s) == {s[i] : i \in 1..Len(s)}

Count(s, x) == Cardinality({i \in 1..Len(s) : s[i] = x})

NoDup(s) == \A i, j \in 1..Len(s) : s[i] = s[j] => i = j

VARIABLES
    pc,                 \* position of download_region / _get_entities
    chunks,             \* Downloader._chunks
    numTiles,           \* length of mercantile.tiles(...)
    tile,               \* index of the tile of the running _get_entities
    sequences_vtile,    \* coverage of the current tile (ids of its features)
    sequence_registry,  \* Downloader._sequence_registry
    registry_lock,      \* Downloader._registry_lock: "free" or its holder
    new_sequence_ids,   \* _get_entities: result of _update_registry
    chunkList,          \* mit.chunked(new_sequence_ids, self._chunks)
    chunkIdx,           \* number of chunks of the tile taken so far
    tasks,              \* aget_sequence_data tasks of the current chunk
    doneQueue,          \* as_completed: finished tasks in completion order
    save,               \* the running _save_sequence call
    rootDir,            \* the download directory exists
    dirs,               \* sequence directories on disk
    files,              \* files on disk: <<sequence id, image, kind>>
    retrievals,         \* kinds of retrieval calls issued so far
    covLog,             \* coverage responses received, one per tile
    added,              \* ids in the order _sequence_registry.add took them
    started,            \* <<tile, chunk, id>> per fetch task, creation order
    saved,              \* ids in the order _save_sequence returned
    mkdirs,             \* ids in the order of makedirs(sequence_path)
    imgFailed,          \* per sequence id: images whose fetch failed
    calls,              \* SpecReg/SpecConc: the register calls made
    tpc,                \* SpecConc: position of every coroutine
    cands,              \* SpecConc: candidate list of every coroutine
    principal_secrets,  \* SecretKeeper.principal_secrets[MAPILLARY_CLIENT_SECRET]
    additional_secrets, \* SecretKeeper.additional_secrets, oldest layer first
    headers,            \* EntitiesAPI.headers: the instance token or "none"
    spc,                \* SpecKeeper: position of every with_secrets scope
    authLog,            \* SpecKeeper: the authenticated calls made
    thumb,              \* Downloader._thumb: "none", "str" or "list"
    run,                \* SpecTwo: number of the download_region call
    prevCov,            \* SpecTwo: coverage the region gave the call before
    scall,              \* SpecSave: the _save_sequence call
    fs                  \* SpecSave: files of the sequence directory

vars == <<pc, chunks, numTiles, tile, sequences_vtile, sequence_registry,
          registry_lock, new_sequence_ids, chunkList, chunkIdx, tasks,
          doneQueue, save, rootDir, dirs, files, retrievals, covLog, added,
          started, saved, mkdirs, imgFailed, calls, tpc, cands,
          principal_secrets, additional_secrets, headers, spc, authLog,
          thumb, run, prevCov, scall, fs>>

\* ------------------------------------------------- Downloader._update_registry

IsRegisteredNever(sequence_id, registry) == FALSE

\* download.py:115  if sequence_id in self._sequence_registry
IsRegistered(sequence_id, registry) == sequence_id \in registry

RegistryAddNothing(registry, sequence_id) == registry

\* download.py:117  self._sequence_registry.add(sequence_id)
RegistryAdd(registry, sequence_id) == registry \cup {sequence_id}

RECURSIVE UpdateRegistryLoop(_, _, _, _)
UpdateRegistryLoop(features, i, registry, new_ids) ==
    IF i > Len(features)
    THEN [registry |-> registry, new_sequence_ids |-> new_ids]
    ELSE LET sequence_id == features[i]
         IN  IF IsRegistered(sequence_id, registry)
             THEN UpdateRegistryLoop(features, i + 1, registry, new_ids)
             ELSE UpdateRegistryLoop(features, i + 1,
                                     RegistryAdd(registry, sequence_id),
                                     Append(new_ids, sequence_id))

update_registry(registry, features) ==
    UpdateRegistryLoop(features, 1, registry, <<>>)

\* ----------------------------------------------------------- mit.chunked

ChunkedAll(iterable, n) ==
    IF Len(iterable) = 0 THEN <<>> ELSE <<iterable>>

\* more_itertools.chunked as used in download.py:96
RECURSIVE Chunked(_, _)
Chunked(iterable, n) ==
    IF Len(iterable) = 0 THEN <<>>
    ELSE IF Len(iterable) <= n THEN <<iterable>>
    ELSE <<SubSeq(iterable, 1, n)>> \o
         Chunked(SubSeq(iterable, n + 1, Len(iterable)), n)

\* ------------------------------------------------ outcome of an exception

\* a coverage error handled per tile: the loop would go on to the next tile
OnCoverageErrorSkipTile == "tiles"

\* download.py:67-68 and 90-92: no try/except around aget_tile, so the
\* exception leaves _get_entities and download_region
OnCoverageError == "aborted"

\* an image error logged and skipped: the sequence fetch would go on
OnImageErrorSkip == "images"

\* api.py:166-167: images.append(await task) re-raises the image's
\* exception, which ends aget_sequence_data
OnImageError == "failed"

MakeRootDirNever == FALSE

\* download.py:59  os.makedirs(self.directory, exist_ok=True)
MakeRootDir == TRUE

LockFreeAlways(lock) == TRUE

\* download.py:93  asyncio.Lock: acquire goes through only while unlocked
LockFree(lock) == lock = "free"

\* ------------------------------------------------------- SecretKeeper.get

PrincipalLookupSilent(principal) == principal

\* keeper.py:21-25: os.environ[key]; a KeyError becomes SecretKeeperException
PrincipalLookup(principal) ==
    IF principal = "none" THEN "SecretKeeperException" ELSE principal

\* keeper.py:17-20: the layers are searched from the newest to the oldest
RECURSIVE GetFrom(_, _, _)
GetFrom(layers, i, principal) ==
    IF i = 0 THEN PrincipalLookup(principal)
    ELSE IF layers[i].secret /= "none" THEN layers[i].secret
    ELSE GetFrom(layers, i - 1, principal)

\* keeper.py:16-25  SecretKeeper.get(MAPILLARY_CLIENT_SECRET)
SecretGet(layers, principal) == GetFrom(layers, Len(layers), principal)

\* ---------------------------------------------------------------- tasks

NewTask(sequence_id) ==
    [id |-> sequence_id, st |-> "listing", total |-> 0, pending |-> {},
     images |-> <<>>]

\* download.py:97-107: one aget_sequence_data per id of the chunk, all
\* scheduled by asyncio.as_completed
MakeTasks(sequences_chunk) ==
    [k \in 1..Len(sequences_chunk) |-> NewTask(sequences_chunk[k])]

InFlight == {k \in 1..Len(tasks) : tasks[k].st \in {"listing", "images"}}

Consumed == {k \in 1..Len(tasks) : tasks[k].st = "consumed"}

ChunkConsumedAlways(ts) == TRUE

\* download.py:107  the for loop over as_completed ends when every task of
\* the chunk has been awaited
ChunkConsumed(ts) == \A k \in 1..Len(ts) : ts[k].st = "consumed"

ResultReadyAfterAll(queue, ts) ==
    queue /= <<>> /\ \A k \in 1..Len(ts) : ts[k].st \notin {"listing", "images"}

\* download.py:107  asyncio.as_completed hands a result over as soon as one
\* task has finished
ResultReady(queue, ts) == queue /= <<>>

SequenceFinishedEarly(pend) == TRUE

\* api.py:166-176: the loop over as_completed(ts) ends, and the records are
\* returned, when no image task is left
SequenceFinished(pend) == pend = {}

runVars == <<pc, numTiles, tile, sequences_vtile, new_sequence_ids,
             chunkList, chunkIdx, tasks, doneQueue, save, rootDir, dirs,
             files, retrievals, covLog, added, started, saved, mkdirs,
             imgFailed>>

keeperVars == <<principal_secrets, additional_secrets, headers, spc, authLog>>

extVars == <<keeperVars, thumb, run, prevCov, scall, fs>>

regVars == <<calls, tpc, cands, extVars>>

RegIdle == /\ calls = <<>>
           /\ tpc = <<>>
           /\ cands = <<>>

\* keeper.py:38 and main.py:52: the secret_keeper of the module has no
\* layer, and the EntitiesAPI is built without access_token
KeeperIdle ==
    /\ principal_secrets = "env"
    /\ additional_secrets = <<>>
    /\ headers = "none"
    /\ spc = <<>>
    /\ authLog = <<>>

\* main.py:25 and 57: the thumb of the configuration is a field name
ThumbIdle == thumb = "str"

TwoIdle == run = 1 /\ prevCov = <<>>

SaveIdle ==
    /\ scall = [pc |-> "off", records |-> <<>>, pos |-> 0, calls |-> 0,
                err |-> "none"]
    /\ fs = {}

ExtIdle == KeeperIdle /\ ThumbIdle /\ TwoIdle /\ SaveIdle

\* ---------------------------------------------------------------- Init

\* Downloader.__init__ (download.py:19-45) and the entry of download_region
Init ==
    /\ pc = "start"
    /\ chunks \in 1..MaxChunks
    /\ numTiles \in 0..MaxTiles
    /\ tile = 0
    /\ sequences_vtile = <<>>
    /\ sequence_registry = {}
    /\ registry_lock = "free"
    /\ new_sequence_ids = <<>>
    /\ chunkList = <<>>
    /\ chunkIdx = 0
    /\ tasks = <<>>
    /\ doneQueue = <<>>
    /\ save = [id |-> "none", images |-> <<>>, pos |-> 0, task |-> 0]
    /\ rootDir = FALSE
    /\ dirs = {}
    /\ files = {}
    /\ retrievals = {}
    /\ covLog = <<>>
    /\ added = <<>>
    /\ started = <<>>
    /\ saved = <<>>
    /\ mkdirs = <<>>
    /\ imgFailed = [s \in SeqIds |-> {}]
    /\ RegIdle
    /\ principal_secrets \in {"none", "env"}
    /\ additional_secrets = <<>>
    /\ headers = "none"
    /\ spc = <<>>
    /\ authLog = <<>>
    /\ ThumbIdle
    /\ TwoIdle
    /\ SaveIdle

\* ------------------------------------------------------- download_region

\* download.py:59-66
Start ==
    /\ pc = "start"
    /\ rootDir' = MakeRootDir
    /\ pc' = "tiles"
    /\ UNCHANGED <<chunks, numTiles, tile, sequences_vtile, sequence_registry,
                   registry_lock, new_sequence_ids, chunkList, chunkIdx,
                   tasks, doneQueue, save, dirs, files, retrievals, covLog,
                   added, started, saved, mkdirs, imgFailed, regVars>>

\* download.py:67-68 and 89-92: the next tile, and the call of aget_tile
NextTile ==
    /\ pc = "tiles"
    /\ tile < numTiles
    /\ SecretGet(additional_secrets, principal_secrets)
          /= "SecretKeeperException"
    /\ tile' = tile + 1
    /\ retrievals' = retrievals \cup {"coverage"}
    /\ pc' = "coverage"
    /\ UNCHANGED <<chunks, numTiles, sequences_vtile, sequence_registry,
                   registry_lock, new_sequence_ids, chunkList, chunkIdx,
                   tasks, doneQueue, save, rootDir, dirs, files, covLog,
                   added, started, saved, mkdirs, imgFailed, regVars>>

\* api.py:241-243: aget_tile looks the secret up before it builds the
\* request; SecretKeeperException leaves aget_tile, _get_entities and
\* download_region
CredentialFail ==
    /\ pc = "tiles"
    /\ tile < numTiles
    /\ SecretGet(additional_secrets, principal_secrets)
          = "SecretKeeperException"
    /\ tile' = tile + 1
    /\ pc' = "aborted"
    /\ UNCHANGED <<chunks, numTiles, sequences_vtile, sequence_registry,
                   registry_lock, new_sequence_ids, chunkList, chunkIdx,
                   tasks, doneQueue, save, rootDir, dirs, files, retrievals,
                   covLog, added, started, saved, mkdirs, imgFailed, regVars>>

\* download.py:67: the tile enumeration is exhausted; download_region returns
Finish ==
    /\ pc = "tiles"
    /\ tile >= numTiles
    /\ pc' = "done"
    /\ UNCHANGED <<chunks, numTiles, tile, sequences_vtile, sequence_registry,
                   registry_lock, new_sequence_ids, chunkList, chunkIdx,
                   tasks, doneQueue, save, rootDir, dirs, files, retrievals,
                   covLog, added, started, saved, mkdirs, imgFailed, regVars>>

\* api.py:248-259: the tile is read and decoded
RegionCoverage == IF run = 1 THEN Coverages ELSE {prevCov[tile]}

CoverageOk ==
    /\ pc = "coverage"
    /\ \E features \in RegionCoverage :
          /\ sequences_vtile' = features
          /\ covLog' = Append(covLog, features)
    /\ pc' = "lock"
    /\ UNCHANGED <<chunks, numTiles, tile, sequence_registry, registry_lock,
                   new_sequence_ids, chunkList, chunkIdx, tasks, doneQueue,
                   save, rootDir, dirs, files, retrievals, added, started,
                   saved, mkdirs, imgFailed, regVars>>

\* api.py:248-256: session.get or the decoder raises
CoverageFail ==
    /\ pc = "coverage"
    /\ covLog' = Append(covLog, <<"error">>)
    /\ pc' = OnCoverageError
    /\ UNCHANGED <<chunks, numTiles, tile, sequences_vtile, sequence_registry,
                   registry_lock, new_sequence_ids, chunkList, chunkIdx,
                   tasks, doneQueue, save, rootDir, dirs, files, retrievals,
                   added, started, saved, mkdirs, imgFailed, regVars>>

\* download.py:93  async with self._registry_lock (acquire)
AcquireLock ==
    /\ pc = "lock"
    /\ LockFree(registry_lock)
    /\ registry_lock' = "main"
    /\ pc' = "register"
    /\ UNCHANGED <<chunks, numTiles, tile, sequences_vtile, sequence_registry,
                   new_sequence_ids, chunkList, chunkIdx, tasks, doneQueue,
                   save, rootDir, dirs, files, retrievals, covLog, added,
                   started, saved, mkdirs, imgFailed, regVars>>

\* download.py:94  new_sequence_ids = self._update_registry(sequences_vtile)
Register ==
    /\ pc = "register"
    /\ LET r == update_registry(sequence_registry, sequences_vtile)
       IN  /\ sequence_registry' = r.registry
           /\ new_sequence_ids' = r.new_sequence_ids
           /\ added' = added \o r.new_sequence_ids
    /\ pc' = "release"
    /\ UNCHANGED <<chunks, numTiles, tile, sequences_vtile, registry_lock,
                   chunkList, chunkIdx, tasks, doneQueue, save, rootDir, dirs,
                   files, retrievals, covLog, started, saved, mkdirs,
                   imgFailed, regVars>>

\* download.py:93-96: the lock is released and the chunk iterator is made
ReleaseLock ==
    /\ pc = "release"
    /\ registry_lock' = "free"
    /\ chunkList' = Chunked(new_sequence_ids, chunks)
    /\ chunkIdx' = 0
    /\ pc' = "chunk"
    /\ UNCHANGED <<chunks, numTiles, tile, sequences_vtile, sequence_registry,
                   new_sequence_ids, tasks, doneQueue, save, rootDir, dirs,
                   files, retrievals, covLog, added, started, saved, mkdirs,
                   imgFailed, regVars>>

\* download.py:96-107: the next chunk; its fetch tasks are created together
NextChunk ==
    /\ pc = "chunk"
    /\ chunkIdx < Len(chunkList)
    /\ chunkIdx' = chunkIdx + 1
    /\ LET sequences_chunk == chunkList[chunkIdx + 1]
       IN  /\ tasks' = MakeTasks(sequences_chunk)
           /\ started' = started \o
                 [k \in 1..Len(sequences_chunk) |->
                     <<tile, chunkIdx + 1, sequences_chunk[k]>>]
    /\ doneQueue' = <<>>
    /\ retrievals' = retrievals \cup {"sequence"}
    /\ pc' = "await"
    /\ UNCHANGED <<chunks, numTiles, tile, sequences_vtile, sequence_registry,
                   registry_lock, new_sequence_ids, chunkList, save, rootDir,
                   dirs, files, covLog, added, saved, mkdirs, imgFailed,
                   regVars>>

\* download.py:96: no chunk is left; _get_entities returns
EndTile ==
    /\ pc = "chunk"
    /\ chunkIdx >= Len(chunkList)
    /\ pc' = "tiles"
    /\ UNCHANGED <<chunks, numTiles, tile, sequences_vtile, sequence_registry,
                   registry_lock, new_sequence_ids, chunkList, chunkIdx,
                   tasks, doneQueue, save, rootDir, dirs, files, retrievals,
                   covLog, added, started, saved, mkdirs, imgFailed, regVars>>

\* --------------------------------------------- EntitiesAPI.aget_sequence_data

SetTask(k, t) == [tasks EXCEPT ![k] = t]

\* api.py:155-163: the listing arrives; one aget_image task per listed image
SequenceListed(k) ==
    /\ k \in 1..Len(tasks)
    /\ tasks[k].st = "listing"
    /\ \E R \in 0..MaxImages :
          /\ tasks' = SetTask(k, [tasks[k] EXCEPT
                                     !.st = IF R = 0 THEN "done" ELSE "images",
                                     !.total = R,
                                     !.pending = 1..R])
          /\ doneQueue' = IF R = 0 THEN Append(doneQueue, k) ELSE doneQueue
          /\ retrievals' = IF R = 0 THEN retrievals
                           ELSE retrievals \cup {"image"}
    /\ UNCHANGED <<pc, chunks, numTiles, tile, sequences_vtile,
                   sequence_registry, registry_lock, new_sequence_ids,
                   chunkList, chunkIdx, save, rootDir, dirs, files, covLog,
                   added, started, saved, mkdirs, imgFailed, regVars>>

\* api.py:155: aget_sequence raises; aget_sequence_data ends with it
SequenceListFail(k) ==
    /\ k \in 1..Len(tasks)
    /\ tasks[k].st = "listing"
    /\ tasks' = SetTask(k, [tasks[k] EXCEPT !.st = "failed"])
    /\ doneQueue' = Append(doneQueue, k)
    /\ UNCHANGED <<pc, chunks, numTiles, tile, sequences_vtile,
                   sequence_registry, registry_lock, new_sequence_ids,
                   chunkList, chunkIdx, save, rootDir, dirs, files,
                   retrievals, covLog, added, started, saved, mkdirs,
                   imgFailed, regVars>>

\* api.py:163-176: an aget_image task ends; aget_sequence_data takes the
\* results in completion order, and returns after the last one.  The image
\* tasks of a sequence fetch that has already raised run on unobserved.
ImageDone(k, i, ok) ==
    /\ k \in 1..Len(tasks)
    /\ i \in tasks[k].pending
    /\ LET t == tasks[k]
           live == t.st = "images"
           st1 == IF live /\ ~ok THEN OnImageError ELSE t.st
           imgs == IF live /\ ok THEN Append(t.images, i) ELSE t.images
           pend == t.pending \ {i}
           st2 == IF st1 = "images" /\ SequenceFinished(pend)
                  THEN "done" ELSE st1
       IN  /\ tasks' = SetTask(k, [t EXCEPT !.st = st2, !.pending = pend,
                                            !.images = imgs])
           /\ doneQueue' = IF live /\ st2 \in {"done", "failed"}
                           THEN Append(doneQueue, k) ELSE doneQueue
           /\ imgFailed' = IF ok THEN imgFailed
                           ELSE [imgFailed EXCEPT ![t.id] = @ \cup {i}]
    /\ UNCHANGED <<pc, chunks, numTiles, tile, sequences_vtile,
                   sequence_registry, registry_lock, new_sequence_ids,
                   chunkList, chunkIdx, save, rootDir, dirs, files,
                   retrievals, covLog, added, started, saved, mkdirs, regVars>>

ImageOk(k, i) == ImageDone(k, i, TRUE)

ImageFail(k, i) == ImageDone(k, i, FALSE)

\* ------------------------------------- _get_entities: the as_completed loop

\* download.py:107-109: the earliest finished task returns its result, and
\* _save_sequence starts: download.py:75-77 makes the sequence directory
AwaitTaskOk ==
    /\ pc = "await"
    /\ ResultReady(doneQueue, tasks)
    /\ LET k == Head(doneQueue)
           t == tasks[k]
       IN  /\ t.st = "done"
           /\ tasks' = SetTask(k, [t EXCEPT !.st = "consumed"])
           /\ save' = [id |-> t.id, images |-> t.images, pos |-> 0,
                       task |-> k]
           /\ dirs' = dirs \cup {t.id}
           /\ mkdirs' = Append(mkdirs, t.id)
    /\ doneQueue' = Tail(doneQueue)
    /\ pc' = "save"
    /\ UNCHANGED <<chunks, numTiles, tile, sequences_vtile, sequence_registry,
                   registry_lock, new_sequence_ids, chunkList, chunkIdx,
                   rootDir, files, retrievals, covLog, added, started, saved,
                   imgFailed, regVars>>

\* download.py:108: the earliest finished task raises; nothing catches it
AwaitTaskRaise ==
    /\ pc = "await"
    /\ ResultReady(doneQueue, tasks)
    /\ tasks[Head(doneQueue)].st = "failed"
    /\ doneQueue' = Tail(doneQueue)
    /\ pc' = "aborted"
    /\ UNCHANGED <<chunks, numTiles, tile, sequences_vtile, sequence_registry,
                   registry_lock, new_sequence_ids, chunkList, chunkIdx,
                   tasks, save, rootDir, dirs, files, retrievals, covLog,
                   added, started, saved, mkdirs, imgFailed, regVars>>

\* download.py:107: every task of the chunk has been awaited
ChunkDone ==
    /\ pc = "await"
    /\ ChunkConsumed(tasks)
    /\ pc' = "chunk"
    /\ UNCHANGED <<chunks, numTiles, tile, sequences_vtile, sequence_registry,
                   registry_lock, new_sequence_ids, chunkList, chunkIdx,
                   tasks, doneQueue, save, rootDir, dirs, files, retrievals,
                   covLog, added, started, saved, mkdirs, imgFailed, regVars>>

\* ------------------------------------------------ Downloader._save_sequence

\* download.py:79-84: per image first the payload file, then the .json file
SaveFile(sv) ==
    <<sv.id, sv.images[(sv.pos \div 2) + 1],
      IF sv.pos % 2 = 0 THEN "data" ELSE "json">>

\* api.py:133-145: the record is NamedPair(metadata, bytes) only when thumbs
\* is a str; it is a plain dict for None and NamedPair(metadata, dict) for
\* a list
SaveWrite ==
    /\ pc = "save"
    /\ save.pos < 2 * Len(save.images)
    /\ thumb = "str"
    /\ files' = files \cup {SaveFile(save)}
    /\ save' = [save EXCEPT !.pos = @ + 1]
    /\ UNCHANGED <<pc, chunks, numTiles, tile, sequences_vtile,
                   sequence_registry, registry_lock, new_sequence_ids,
                   chunkList, chunkIdx, tasks, doneQueue, rootDir, dirs,
                   retrievals, covLog, added, started, saved, mkdirs,
                   imgFailed, regVars>>

\* download.py:80-84: opening or writing a file raises
SaveFail ==
    /\ pc = "save"
    /\ save.pos < 2 * Len(save.images)
    /\ pc' = "aborted"
    /\ UNCHANGED <<chunks, numTiles, tile, sequences_vtile, sequence_registry,
                   registry_lock, new_sequence_ids, chunkList, chunkIdx,
                   tasks, doneQueue, save, rootDir, dirs, files, retrievals,
                   covLog, added, started, saved, mkdirs, imgFailed, regVars>>

\* download.py:79-81: a dict record has no attribute metadata
\* (AttributeError, nothing opened); a dict payload is refused by write
\* (TypeError, after open(image_path, "wb") made the file)
SaveRaise ==
    /\ pc = "save"
    /\ save.pos < 2 * Len(save.images)
    /\ thumb /= "str"
    /\ files' = IF thumb = "list" THEN files \cup {SaveFile(save)} ELSE files
    /\ pc' = "aborted"
    /\ UNCHANGED <<chunks, numTiles, tile, sequences_vtile, sequence_registry,
                   registry_lock, new_sequence_ids, chunkList, chunkIdx,
                   tasks, doneQueue, save, rootDir, dirs, retrievals, covLog,
                   added, started, saved, mkdirs, imgFailed, regVars>>

\* download.py:78: the loop over image_datas ends; _save_sequence returns
SaveDone ==
    /\ pc = "save"
    /\ save.pos = 2 * Len(save.images)
    /\ saved' = Append(saved, save.id)
    /\ pc' = "await"
    /\ UNCHANGED <<chunks, numTiles, tile, sequences_vtile, sequence_registry,
                   registry_lock, new_sequence_ids, chunkList, chunkIdx,
                   tasks, doneQueue, save, rootDir, dirs, files, retrievals,
                   covLog, added, started, mkdirs, imgFailed, regVars>>

Next ==
    \/ Start
    \/ NextTile
    \/ CredentialFail
    \/ Finish
    \/ CoverageOk
    \/ CoverageFail
    \/ AcquireLock
    \/ Register
    \/ ReleaseLock
    \/ NextChunk
    \/ EndTile
    \/ \E k \in 1..Len(tasks) : SequenceListed(k)
    \/ \E k \in 1..Len(tasks) : SequenceListFail(k)
    \/ \E k \in 1..Len(tasks) : \E i \in tasks[k].pending : ImageOk(k, i)
    \/ \E k \in 1..Len(tasks) : \E i \in tasks[k].pending : ImageFail(k, i)
    \/ AwaitTaskOk
    \/ AwaitTaskRaise
    \/ ChunkDone
    \/ SaveWrite
    \/ SaveFail
    \/ SaveDone

Spec == Init /\ [][Next]_vars

\* ======================================================================
\* SpecTwo: download_region is called again on the same Downloader, over
\* the same region, after a call that returned
\* ======================================================================

RegistryAtEntryEmpty(registry) == {}

\* download.py:59-66: download_region leaves self._sequence_registry, made
\* in __init__ (download.py:41), as it is
RegistryAtEntry(registry) == registry

\* download.py:47: the next call; the region gives the coverage it gave
\* before, and the logs of the model start again
Restart ==
    /\ pc = "done"
    /\ run < MaxRuns
    /\ run' = run + 1
    /\ prevCov' = covLog
    /\ sequence_registry' = RegistryAtEntry(sequence_registry)
    /\ pc' = "start"
    /\ tile' = 0
    /\ sequences_vtile' = <<>>
    /\ new_sequence_ids' = <<>>
    /\ chunkList' = <<>>
    /\ chunkIdx' = 0
    /\ tasks' = <<>>
    /\ doneQueue' = <<>>
    /\ retrievals' = {}
    /\ covLog' = <<>>
    /\ added' = <<>>
    /\ started' = <<>>
    /\ saved' = <<>>
    /\ mkdirs' = <<>>
    /\ UNCHANGED <<chunks, numTiles, registry_lock, save, rootDir, dirs, files,
                   imgFailed, calls, tpc, cands, keeperVars, thumb, scall, fs>>

NextTwo == Next \/ Restart

SpecTwo == Init /\ [][NextTwo]_vars

\* ======================================================================
\* SpecLive: a run in which no retrieval and no write fails, and every
\* started operation completes; the Downloader may have any thumb setting
\* ======================================================================

\* download.py:27: thumb is None by default, annotated List[str], and a
\* str in main.py
InitLive ==
    /\ pc = "start"
    /\ chunks \in 1..MaxChunks
    /\ numTiles \in 0..MaxTiles
    /\ tile = 0
    /\ sequences_vtile = <<>>
    /\ sequence_registry = {}
    /\ registry_lock = "free"
    /\ new_sequence_ids = <<>>
    /\ chunkList = <<>>
    /\ chunkIdx = 0
    /\ tasks = <<>>
    /\ doneQueue = <<>>
    /\ save = [id |-> "none", images |-> <<>>, pos |-> 0, task |-> 0]
    /\ rootDir = FALSE
    /\ dirs = {}
    /\ files = {}
    /\ retrievals = {}
    /\ covLog = <<>>
    /\ added = <<>>
    /\ started = <<>>
    /\ saved = <<>>
    /\ mkdirs = <<>>
    /\ imgFailed = [s \in SeqIds |-> {}]
    /\ RegIdle
    /\ KeeperIdle
    /\ thumb \in {"none", "str", "list"}
    /\ TwoIdle
    /\ SaveIdle

NextLive ==
    \/ Start
    \/ NextTile
    \/ Finish
    \/ CoverageOk
    \/ AcquireLock
    \/ Register
    \/ ReleaseLock
    \/ NextChunk
    \/ EndTile
    \/ \E k \in 1..Len(tasks) : SequenceListed(k)
    \/ \E k \in 1..Len(tasks) : \E i \in tasks[k].pending : ImageOk(k, i)
    \/ AwaitTaskOk
    \/ ChunkDone
    \/ SaveWrite
    \/ SaveRaise
    \/ SaveDone

\* every started operation completes: the run does not stop while a step of
\* it can be taken
SpecLive == InitLive /\ [][NextLive]_vars /\ WF_vars(NextLive)

\* ======================================================================
\* SpecReg: _update_registry called again and again on one registry
\* ======================================================================

RunIdle ==
    /\ pc = "off"
    /\ chunks = 1
    /\ numTiles = 0
    /\ tile = 0
    /\ sequences_vtile = <<>>
    /\ new_sequence_ids = <<>>
    /\ chunkList = <<>>
    /\ chunkIdx = 0
    /\ tasks = <<>>
    /\ doneQueue = <<>>
    /\ save = [id |-> "none", images |-> <<>>, pos |-> 0, task |-> 0]
    /\ rootDir = FALSE
    /\ dirs = {}
    /\ files = {}
    /\ retrievals = {}
    /\ covLog = <<>>
    /\ added = <<>>
    /\ started = <<>>
    /\ saved = <<>>
    /\ mkdirs = <<>>
    /\ imgFailed = [s \in SeqIds |-> {}]

Candidates == SeqsUpTo(SeqIds, MaxLen)

\* download.py:41: the registry of a new Downloader is empty
InitReg ==
    /\ RunIdle
    /\ sequence_registry = {}
    /\ registry_lock = "free"
    /\ RegIdle
    /\ ExtIdle

CallRecord(t, features, before, r) ==
    [task |-> t, cands |-> features, before |-> before,
     out |-> r.new_sequence_ids, after |-> r.registry]

\* download.py:111-119: one call of _update_registry
RegisterCall ==
    /\ Len(calls) < MaxCalls
    /\ \E features \in Candidates :
          LET r == update_registry(sequence_registry, features)
          IN  /\ sequence_registry' = r.registry
              /\ calls' = Append(calls,
                             CallRecord(0, features, sequence_registry, r))
    /\ UNCHANGED <<runVars, chunks, registry_lock, tpc, cands, extVars>>

NextReg == RegisterCall

SpecReg == InitReg /\ [][NextReg]_vars

\* ======================================================================
\* SpecConc: NumTasks coroutines run download.py:93-94 on one Downloader
\* ======================================================================

Tasks == 1..NumTasks

InitConc ==
    /\ RunIdle
    /\ sequence_registry = {}
    /\ registry_lock = "free"
    /\ calls = <<>>
    /\ tpc = [t \in Tasks |-> "lock"]
    /\ cands \in [Tasks -> Coverages]
    /\ ExtIdle

\* download.py:93: entering async with self._registry_lock
TAcquire(t) ==
    /\ tpc[t] = "lock"
    /\ LockFree(registry_lock)
    /\ registry_lock' = ToString(t)
    /\ tpc' = [tpc EXCEPT ![t] = "register"]
    /\ UNCHANGED <<runVars, chunks, sequence_registry, calls, cands,
                   extVars>>

\* download.py:94: _update_registry, which has no suspension point
TRegister(t) ==
    /\ tpc[t] = "register"
    /\ LET r == update_registry(sequence_registry, cands[t])
       IN  /\ sequence_registry' = r.registry
           /\ calls' = Append(calls,
                          CallRecord(t, cands[t], sequence_registry, r))
    /\ tpc' = [tpc EXCEPT ![t] = "release"]
    /\ UNCHANGED <<runVars, chunks, registry_lock, cands, extVars>>

\* download.py:93-94: leaving the async with block
TRelease(t) ==
    /\ tpc[t] = "release"
    /\ registry_lock' = "free"
    /\ tpc' = [tpc EXCEPT ![t] = "done"]
    /\ UNCHANGED <<runVars, chunks, sequence_registry, calls, cands,
                   extVars>>

NextConc ==
    \/ \E t \in Tasks : TAcquire(t)
    \/ \E t \in Tasks : TRegister(t)
    \/ \E t \in Tasks : TRelease(t)

SpecConc == InitConc /\ [][NextConc]_vars

\* ======================================================================
\* Properties
\* ======================================================================

StartedIds == [i \in 1..Len(started) |-> started[i][3]]

FirstIndex(s, x) ==
    CHOOSE i \in 1..Len(s) : s[i] = x /\ \A j \in 1..(i - 1) : s[j] /= x

IsPrefix(s, t) == Len(s) <= Len(t) /\ \A i \in 1..Len(s) : s[i] = t[i]

OverlapScenario == <<(<<"s1", "s2">>), (<<"s2", "s3">>)>>

\* C1: in a download_region run every sequence id is added to the registry
\* at most once, every id a fetch task was created for is registered, and
\* no two fetch tasks in flight are for the same id (nor is any id fetched
\* twice), also across tiles whose coverage overlaps.
C1_RegisteredOnceBeforeFetch ==
    /\ NoDup(added)
    /\ Range(added) = sequence_registry
    /\ \A i \in 1..Len(started) : started[i][3] \in sequence_registry
    /\ \A j, k \in InFlight : tasks[j].id = tasks[k].id => j = k
    /\ NoDup(StartedIds)

C1_Witness ==
    /\ covLog = OverlapScenario
    /\ tile = 2
    /\ pc = "await"
    /\ InFlight /= {}

\* C2: a call of _update_registry returns the candidates that were not in
\* the registry before the call, each once, in the order of their first
\* occurrence in the input, and the registry afterwards is the old one plus
\* exactly the returned ids.
C2_CallOk(c) ==
    /\ NoDup(c.out)
    /\ Range(c.out) = Range(c.cands) \ c.before
    /\ \A a, b \in 1..Len(c.out) :
          a < b => FirstIndex(c.cands, c.out[a]) < FirstIndex(c.cands, c.out[b])
    /\ c.after = c.before \cup Range(c.out)

C2_UpdateRegistryContract ==
    /\ \A i \in 1..Len(calls) : C2_CallOk(calls[i])
    /\ calls /= <<>> => sequence_registry = calls[Len(calls)].after

C2_Witness ==
    \E i \in 1..Len(calls) :
        /\ calls[i].before \cap Range(calls[i].cands) /= {}
        /\ ~NoDup(calls[i].cands)
        /\ Len(calls[i].out) >= 1

\* C3: over a series of register calls on one registry, every candidate id
\* is returned by exactly one call, the first call that offered it, and
\* once.
C3_ReturnedByFirstOfferOnly ==
    \A i \in 1..Len(calls) : \A id \in Range(calls[i].cands) :
        LET offers == {j \in 1..Len(calls) : id \in Range(calls[j].cands)}
            first == CHOOSE j \in offers : \A m \in offers : j <= m
        IN  /\ Count(calls[first].out, id) = 1
            /\ \A j \in 1..Len(calls) :
                  j /= first => id \notin Range(calls[j].out)

C3_Witness ==
    /\ Len(calls) >= 3
    /\ \E id \in SeqIds :
          \A j \in 1..3 : id \in Range(calls[j].cands)

\* C4: when several coroutines do the locked register step concurrently,
\* at most one of them is inside the lock, every register step starts from
\* the registry the step before it left, the outputs are pairwise disjoint,
\* and once all are done the outputs together are the distinct candidates.
C4_ConcurrentRegister ==
    /\ Cardinality({t \in DOMAIN tpc :
                       tpc[t] \in {"register", "release"}}) <= 1
    /\ \A i \in 2..Len(calls) : calls[i].before = calls[i - 1].after
    /\ \A i \in 1..Len(calls) : NoDup(calls[i].out)
    /\ \A i, j \in 1..Len(calls) :
          i /= j => Range(calls[i].out) \cap Range(calls[j].out) = {}
    /\ (tpc /= <<>> /\ \A t \in DOMAIN tpc : tpc[t] = "done") =>
          /\ Len(calls) = Len(tpc)
          /\ UNION {Range(calls[i].out) : i \in 1..Len(calls)} =
             UNION {Range(cands[t]) : t \in DOMAIN cands}

C4_Witness ==
    /\ tpc /= <<>>
    /\ \A t \in DOMAIN tpc : tpc[t] = "done"
    /\ calls[1].task /= 1
    /\ \E t, u \in DOMAIN cands :
          t /= u /\ Range(cands[t]) \cap Range(cands[u]) /= {}

\* C5: in a run over two tiles with coverage [s1, s2] and [s2, s3] that
\* returns, each of s1, s2, s3 was fetched once and persisted once, s2 was
\* not fetched for the second tile, three sequence directories were made
\* and the registry holds three ids.
C5_OverlapScenario ==
    (numTiles = 2 /\ covLog = OverlapScenario /\ pc = "done") =>
        /\ \A s \in SeqIds :
              /\ Count(StartedIds, s) = 1
              /\ Count(saved, s) = 1
              /\ Count(mkdirs, s) = 1
        /\ \A i \in 1..Len(started) :
              started[i][1] = 2 => started[i][3] /= "s2"
        /\ Len(mkdirs) = 3
        /\ Cardinality(dirs) = 3
        /\ Cardinality(sequence_registry) = 3

C5_Witness ==
    /\ numTiles = 2
    /\ covLog = OverlapScenario
    /\ pc = "done"

\* C6: the number of sequence fetch tasks in flight never exceeds the
\* chunk size, and while the fetches of a chunk exist every id of an
\* earlier chunk has been fetched and persisted.
C6_InFlightBounded ==
    /\ Cardinality(InFlight) <= chunks
    /\ Len(tasks) <= chunks
    /\ \A i \in 1..Len(started) :
          (\/ started[i][1] < tile
           \/ started[i][1] = tile /\ started[i][2] < chunkIdx)
          => started[i][3] \in Range(saved)

C6_Witness ==
    /\ chunks = 1
    /\ chunkIdx = 2
    /\ pc = "await"
    /\ InFlight /= {}
    /\ Len(saved) = 1

\* C7 as stated: a tile whose coverage fetch failed does not end the run.
C7_Original_CoverageErrorSkipsTile ==
    (covLog /= <<>> /\ covLog[Len(covLog)] = <<"error">>) => pc /= "aborted"

\* C7 as amended: a failed coverage fetch ends the run at that tile: the
\* run is aborted, no later tile is fetched and nothing is registered for
\* the failed tile.
C7_CoverageErrorAbortsRun ==
    \A i \in 1..Len(covLog) :
        covLog[i] = <<"error">> =>
            /\ i = Len(covLog)
            /\ tile = i
            /\ pc = "aborted"
            /\ registry_lock = "free"
            /\ \A j \in 1..Len(started) : started[j][1] < i

C7_Witness ==
    /\ numTiles = 2
    /\ covLog = <<(<<"error">>)>>
    /\ pc = "aborted"

C9_Original_EmptyRegionNoDirectory ==
    numTiles = 0 => /\ ~rootDir
                    /\ dirs = {}
                    /\ retrievals = {}

\* C9 as amended: with an empty tile enumeration download_region makes the
\* download directory itself and nothing else: no sequence directory, no
\* file, no retrieval call, and it returns.
C9_EmptyRegionOnlyRootDir ==
    numTiles = 0 =>
        /\ pc \in {"start", "tiles", "done"}
        /\ pc /= "start" => rootDir
        /\ dirs = {} /\ mkdirs = <<>> /\ files = {}
        /\ retrievals = {}
        /\ tasks = <<>> /\ started = <<>> /\ covLog = <<>>

C9_Witness ==
    /\ numTiles = 0
    /\ pc = "done"
    /\ rootDir

\* C10: tiles are taken one at a time in order: while the coverage of a
\* tile is being fetched every id registered so far has been fetched and
\* persisted; fetch tasks are created in the order of registration, chunk
\* after chunk, and only for the current tile.
C10_TilesAndChunksInOrder ==
    /\ tile <= numTiles
    /\ Len(covLog) \in {tile - 1, tile}
    /\ pc \in {"tiles", "coverage"} => Range(added) \subseteq Range(saved)
    /\ \A i \in 1..Len(started) : started[i][1] < tile =>
          started[i][3] \in Range(saved)
    /\ IsPrefix(StartedIds, added)
    /\ \A i, j \in 1..Len(started) :
          i < j => \/ started[i][1] < started[j][1]
                   \/ /\ started[i][1] = started[j][1]
                      /\ started[i][2] <= started[j][2]
    /\ \A k \in 1..Len(tasks) :
          tasks[k].st /= "consumed" =>
              \E i \in 1..Len(started) :
                  started[i] = <<tile, chunkIdx, tasks[k].id>>

C10_Witness ==
    /\ chunks = 1
    /\ tile = 2
    /\ pc = "coverage"
    /\ Len(saved) = 2
    /\ Len(covLog[1]) = 2

\* ======================================================================
\* SpecChunk: download.py:96 partitions the new ids of a tile
\* ======================================================================

\* the ids _update_registry returns are pairwise different
NewIdLists == {l \in SeqsUpTo(1..MaxM, MaxM) : NoDup(l)}

InitChunk ==
    /\ pc = "off"
    /\ chunks \in 1..MaxK
    /\ new_sequence_ids \in NewIdLists
    /\ numTiles = 0
    /\ tile = 0
    /\ sequences_vtile = <<>>
    /\ chunkList = <<>>
    /\ chunkIdx = 0
    /\ tasks = <<>>
    /\ doneQueue = <<>>
    /\ save = [id |-> "none", images |-> <<>>, pos |-> 0, task |-> 0]
    /\ rootDir = FALSE
    /\ dirs = {}
    /\ files = {}
    /\ retrievals = {}
    /\ covLog = <<>>
    /\ added = <<>>
    /\ started = <<>>
    /\ saved = <<>>
    /\ mkdirs = <<>>
    /\ imgFailed = [s \in SeqIds |-> {}]
    /\ sequence_registry = {}
    /\ registry_lock = "free"
    /\ RegIdle
    /\ ExtIdle

\* download.py:96  mit.chunked(new_sequence_ids, self._chunks)
Partition ==
    /\ pc = "off"
    /\ chunkList' = Chunked(new_sequence_ids, chunks)
    /\ pc' = "chunked"
    /\ UNCHANGED <<chunks, numTiles, tile, sequences_vtile, sequence_registry,
                   registry_lock, new_sequence_ids, chunkIdx, tasks,
                   doneQueue, save, rootDir, dirs, files, retrievals, covLog,
                   added, started, saved, mkdirs, imgFailed, regVars>>

NextChunkSpec == Partition

SpecChunk == InitChunk /\ [][NextChunkSpec]_vars

RECURSIVE Flatten(_)
Flatten(ss) == IF Len(ss) = 0 THEN <<>> ELSE Head(ss) \o Flatten(Tail(ss))

CeilDiv(m, k) == (m + k - 1) \div k

\* C11: partitioning M new ids with chunk size K >= 1 gives ceil(M/K)
\* chunks, each non-empty and of at most K ids, whose concatenation is the
\* original list, so that every id is in exactly one chunk.
C11_ChunkPartition ==
    pc = "chunked" =>
        /\ Len(chunkList) = CeilDiv(Len(new_sequence_ids), chunks)
        /\ \A c \in 1..Len(chunkList) :
              Len(chunkList[c]) >= 1 /\ Len(chunkList[c]) <= chunks
        /\ Flatten(chunkList) = new_sequence_ids
        /\ \A id \in Range(new_sequence_ids) :
              Cardinality({c \in 1..Len(chunkList) :
                              id \in Range(chunkList[c])}) = 1

C11_Witness ==
    /\ pc = "chunked"
    /\ chunks = 2
    /\ Len(new_sequence_ids) = 3
    /\ Len(chunkList) = 2
    /\ Len(chunkList[2]) = 1

\* C14: when neither a layer nor the environment holds the secret, the
\* lookup raises and the run is aborted at its first authenticated call,
\* the coverage fetch of the first tile: no request of any kind is issued,
\* no id is registered and no sequence directory is made.
C14_MissingSecretAbortsRun ==
    (principal_secrets = "none" /\ additional_secrets = <<>>) =>
        /\ retrievals = {}
        /\ covLog = <<>>
        /\ sequence_registry = {} /\ added = <<>>
        /\ started = <<>> /\ tasks = <<>>
        /\ dirs = {} /\ mkdirs = <<>> /\ files = {}
        /\ tile >= 1 => (tile = 1 /\ pc = "aborted")
        /\ pc = "done" => numTiles = 0

C14_Witness ==
    /\ principal_secrets = "none"
    /\ additional_secrets = <<>>
    /\ numTiles = 2
    /\ tile = 1
    /\ pc = "aborted"

\* C12: when no retrieval and no write fails, download_region is not
\* aborted, and when it has returned every tile was taken, the persisted
\* ids are the registered ids, and each was fetched once and persisted once.
C12_TerminatesWithAllPersisted ==
    /\ pc /= "aborted"
    /\ pc = "done" =>
          /\ tile = numTiles
          /\ Range(saved) = sequence_registry
          /\ \A s \in sequence_registry :
                Count(saved, s) = 1 /\ Count(StartedIds, s) = 1

\* C12, for a Downloader whose thumb is a str: the run ends, and ends by
\* returning.
C12_ReturnsWhenThumbIsStr ==
    thumb = "str" => <>(pc = "done")

\* C12, for a Downloader whose thumb is a str: the final state is as claimed.
C12_AllPersistedWhenThumbIsStr ==
    thumb = "str" => C12_TerminatesWithAllPersisted

\* ======================================================================
\* SpecKeeper: with_secrets scopes on the shared secret_keeper, and the
\* token of authenticated calls
\* ======================================================================

Scopes == 1..NumScopes

\* the call-site access_token: None or a token
CallTokens == {"none", "tok"}

InitKeeper ==
    /\ RunIdle
    /\ sequence_registry = {}
    /\ registry_lock = "free"
    /\ RegIdle
    /\ principal_secrets \in {"none", "env"}
    /\ additional_secrets = <<>>
    /\ headers \in {"none", "inst"}
    /\ spc = [c \in Scopes |-> "out"]
    /\ authLog = <<>>
    /\ ThumbIdle
    /\ TwoIdle
    /\ SaveIdle

keeperRest == <<runVars, chunks, sequence_registry, registry_lock, calls,
                tpc, cands, thumb, run, prevCov, scall, fs>>

\* keeper.py:30-32: with_secrets appends its kwargs, which may or may not
\* hold MAPILLARY_CLIENT_SECRET
EnterScope(c) ==
    /\ spc[c] = "out"
    /\ \E secret \in {"none", ToString(c)} :
          additional_secrets' =
              Append(additional_secrets, [scope |-> c, secret |-> secret])
    /\ spc' = [spc EXCEPT ![c] = "in"]
    /\ UNCHANGED <<keeperRest, principal_secrets, headers, authLog>>

\* keeper.py:35-36: the scope ends: additional_secrets[:-1]
ExitScope(c) ==
    /\ spc[c] = "in"
    /\ additional_secrets' =
          SubSeq(additional_secrets, 1, Len(additional_secrets) - 1)
    /\ spc' = [spc EXCEPT ![c] = "closed"]
    /\ UNCHANGED <<keeperRest, principal_secrets, headers, authLog>>

\* utils.init_if_none(value, default)
InitIfNone(value, default) == IF value = "none" THEN default ELSE value

\* api.py:192-199  EntitiesAPI._make_header
make_header(access_token) ==
    IF access_token = "none"
    THEN IF headers = "none"
         THEN SecretGet(additional_secrets, principal_secrets)
         ELSE headers
    ELSE access_token

\* api.py:241-243  CoverageAPI.aget_tile: the default argument
\* secret_keeper[MAPILLARY_CLIENT_SECRET] is evaluated before init_if_none
\* is called
aget_tile_token(access_token) ==
    LET default == SecretGet(additional_secrets, principal_secrets)
    IN  IF default = "SecretKeeperException" THEN "SecretKeeperException"
        ELSE InitIfNone(access_token, default)

AuthRecord(api, access_token, result) ==
    [api |-> api, explicit |-> access_token, result |-> result,
     instance |-> IF api = "entities" THEN headers ELSE "none",
     lookup |-> SecretGet(additional_secrets, principal_secrets)]

\* api.py:109-110, 128-129, 186-187: an entity call builds its header
EntityCall ==
    /\ \E access_token \in CallTokens :
          authLog' = <<AuthRecord("entities", access_token,
                                  make_header(access_token))>>
    /\ UNCHANGED <<keeperRest, principal_secrets, additional_secrets,
                   headers, spc>>

\* api.py:233-248: a coverage call resolves its token
CoverageCall ==
    /\ \E access_token \in CallTokens :
          authLog' = <<AuthRecord("coverage", access_token,
                                  aget_tile_token(access_token))>>
    /\ UNCHANGED <<keeperRest, principal_secrets, additional_secrets,
                   headers, spc>>

NextKeeper ==
    \/ \E c \in Scopes : EnterScope(c)
    \/ \E c \in Scopes : ExitScope(c)
    \/ EntityCall
    \/ CoverageCall

SpecKeeper == InitKeeper /\ [][NextKeeper]_vars

\* the token the stated order gives: call-site token, then instance token,
\* then the secret lookup
FirstAvailable(r) ==
    IF r.explicit /= "none" THEN r.explicit
    ELSE IF r.instance /= "none" THEN r.instance
    ELSE r.lookup

\* C13: every authenticated call, entity or coverage, uses the call-site
\* token if there is one, else the instance token if there is one, else
\* the looked-up secret; with a call-site token it goes ahead whatever the
\* other sources hold.
C13_TokenPriority ==
    \A i \in 1..Len(authLog) : authLog[i].result = FirstAvailable(authLog[i])

\* C13, for the entity calls alone.
C13_EntityTokenPriority ==
    \A i \in 1..Len(authLog) :
        authLog[i].api = "entities" =>
            authLog[i].result = FirstAvailable(authLog[i])

\* C20: the layers get consults are exactly the layers of the scopes that
\* are open, whatever the order in which the scopes were left.
C20_LayersAreOpenScopes ==
    {additional_secrets[i].scope : i \in 1..Len(additional_secrets)}
        = {c \in DOMAIN spc : spc[c] = "in"}

\* C20, for scopes that are left in the reverse of the order they were
\* entered: every step that leaves a scope while its layer is the newest
\* keeps the layers equal to the open scopes.
C20_NestedScopesRestore ==
    [][(/\ C20_LayersAreOpenScopes
        /\ \E c \in DOMAIN spc :
              /\ spc[c] = "in" /\ spc'[c] = "closed"
              /\ additional_secrets[Len(additional_secrets)].scope = c)
       => C20_LayersAreOpenScopes']_vars

PrevIds == UNION {Range(prevCov[i]) : i \in 1..Len(prevCov)}

\* C15 as stated: a later download_region call starts from an empty
\* registry, and when it returns it has persisted again every sequence of
\* the region.
C15_Original_RegistryPerInvocation ==
    run >= 2 =>
        /\ pc = "start" => sequence_registry = {}
        /\ pc = "done" => PrevIds \subseteq Range(saved)

\* C15 as amended: the registry lives as long as the Downloader: a later
\* download_region call on the same Downloader over the same region finds
\* every id of the region registered, and fetches and persists none again.
C15_RegistryPerDownloader ==
    run >= 2 =>
        /\ PrevIds \subseteq sequence_registry
        /\ added = <<>>
        /\ started = <<>> /\ tasks = <<>>
        /\ saved = <<>> /\ mkdirs = <<>>
        /\ retrievals \subseteq {"coverage"}
        /\ pc /= "done" \/ tile = numTiles

C15_Witness ==
    /\ run = 2
    /\ pc = "done"
    /\ prevCov = OverlapScenario
    /\ covLog = OverlapScenario
    /\ sequence_registry = SeqIds

\* ======================================================================
\* SpecSave: _save_sequence called for one sequence
\* ======================================================================

ImgIds == {"101", "102", "103"}

SaveSeqId == "s1"

\* the metadata["id"] of the records handed to _save_sequence
RecordLists == {l \in SeqsUpTo(ImgIds, MaxRecords) : NoDup(l)}

InitSave ==
    /\ RunIdle
    /\ sequence_registry = {}
    /\ registry_lock = "free"
    /\ RegIdle
    /\ KeeperIdle
    /\ TwoIdle
    /\ thumb \in {"none", "str", "list"}
    /\ \E records \in RecordLists :
          scall = [pc |-> "call", records |-> records, pos |-> 0,
                   calls |-> 0, err |-> "none"]
    /\ fs = {}

saveRest == <<pc, chunks, numTiles, tile, sequences_vtile, sequence_registry,
              registry_lock, new_sequence_ids, chunkList, chunkIdx, tasks,
              doneQueue, save, rootDir, files, retrievals, covLog, added,
              started, saved, mkdirs, imgFailed, calls, tpc, cands,
              keeperVars, thumb, run, prevCov>>

\* download.py:77  os.makedirs(sequence_paht, exist_ok=True)
MakedirsOk(exists) == TRUE

PayloadName(image_id) == image_id

MetadataNameNoSuffix(image_id) == image_id

\* download.py:83  f"{image_path}.json"
MetadataName(image_id) == image_id \o ".json"

\* open(path, "w"/"wb") and write: the file holds what was written last
WriteFile(name, content) ==
    {f \in fs : f.name /= name} \cup {[name |-> name, content |-> content]}

CurrentRecord == scall.records[(scall.pos \div 2) + 1]

\* download.py:75-77
SvStart ==
    /\ scall.pc = "call"
    /\ IF MakedirsOk(SaveSeqId \in dirs)
       THEN /\ dirs' = dirs \cup {SaveSeqId}
            /\ scall' = [scall EXCEPT !.pc = "loop", !.pos = 0]
       ELSE /\ dirs' = dirs
            /\ scall' = [scall EXCEPT !.pc = "raised", !.err = "makedirs"]
    /\ UNCHANGED <<saveRest, fs>>

\* download.py:79-81: the payload file, named by the image id
SvWritePayload ==
    /\ scall.pc = "loop"
    /\ scall.pos < 2 * Len(scall.records)
    /\ scall.pos % 2 = 0
    /\ thumb = "str"
    /\ fs' = WriteFile(PayloadName(CurrentRecord),
                       [kind |-> "bytes", id |-> CurrentRecord])
    /\ scall' = [scall EXCEPT !.pos = @ + 1]
    /\ UNCHANGED <<saveRest, dirs>>

\* download.py:83-84: the metadata file, json.dumps(image_data.metadata)
SvWriteMetadata ==
    /\ scall.pc = "loop"
    /\ scall.pos < 2 * Len(scall.records)
    /\ scall.pos % 2 = 1
    /\ fs' = WriteFile(MetadataName(CurrentRecord),
                       [kind |-> "json", id |-> CurrentRecord])
    /\ scall' = [scall EXCEPT !.pos = @ + 1]
    /\ UNCHANGED <<saveRest, dirs>>

\* download.py:79-81: a dict record has no attribute metadata; a dict
\* payload is refused by write after the file was opened
SvRecordRaise ==
    /\ scall.pc = "loop"
    /\ scall.pos < 2 * Len(scall.records)
    /\ scall.pos % 2 = 0
    /\ thumb /= "str"
    /\ fs' = IF thumb = "list"
             THEN WriteFile(PayloadName(CurrentRecord),
                            [kind |-> "empty", id |-> ""])
             ELSE fs
    /\ scall' = [scall EXCEPT !.pc = "raised", !.err = "record"]
    /\ UNCHANGED <<saveRest, dirs>>

\* download.py:80-84: opening or writing raises OSError
SvIoRaise ==
    /\ scall.pc = "loop"
    /\ scall.pos < 2 * Len(scall.records)
    /\ scall' = [scall EXCEPT !.pc = "raised", !.err = "io"]
    /\ UNCHANGED <<saveRest, dirs, fs>>

\* download.py:78: the loop ends; _save_sequence returns
SvDone ==
    /\ scall.pc = "loop"
    /\ scall.pos = 2 * Len(scall.records)
    /\ scall' = [scall EXCEPT !.pc = "done", !.calls = @ + 1]
    /\ UNCHANGED <<saveRest, dirs, fs>>

\* _save_sequence is called again with the same records
SvAgain ==
    /\ scall.pc \in {"done", "raised"}
    /\ scall.calls < MaxSaveCalls
    /\ scall' = [scall EXCEPT !.pc = "call", !.pos = 0, !.err = "none",
                              !.calls = IF scall.pc = "raised"
                                        THEN @ + 1 ELSE @]
    /\ UNCHANGED <<saveRest, dirs, fs>>

NextSave ==
    \/ SvStart
    \/ SvWritePayload
    \/ SvWriteMetadata
    \/ SvRecordRaise
    \/ SvIoRaise
    \/ SvDone
    \/ SvAgain

SpecSave == InitSave /\ [][NextSave]_vars

FilesOfKind(kind) == {f \in fs : f.content.kind = kind}

\* C16: when _save_sequence has returned for R records of distinct image
\* ids, the sequence directory exists and holds exactly R payload files,
\* named by the image ids, and R metadata files, named <image id>.json and
\* carrying that id, and nothing else; an existing directory never makes
\* the call fail, and a repeated call leaves the same files.
C16_SavedFiles ==
    /\ scall.err /= "makedirs"
    /\ scall.pc = "done" =>
          LET ids == Range(scall.records)
              R == Len(scall.records)
          IN  /\ SaveSeqId \in dirs
              /\ {f.name : f \in FilesOfKind("bytes")} = ids
              /\ {f.name : f \in FilesOfKind("json")}
                    = {id \o ".json" : id \in ids}
              /\ \A f \in FilesOfKind("json") :
                    f.name = f.content.id \o ".json"
              /\ \A f \in FilesOfKind("bytes") : f.name = f.content.id
              /\ Cardinality(FilesOfKind("bytes")) = R
              /\ Cardinality(FilesOfKind("json")) = R
              /\ Cardinality(fs) = 2 * R

C16_Witness ==
    /\ scall.pc = "done"
    /\ scall.calls = 2
    /\ scall.records = <<"102", "101">>
    /\ Cardinality(fs) = 4

\* ======================================================================
\* C17: the fetches of a chunk and the persistence of their results
\* ======================================================================

\* a chunk's fetches are all created in the step that opens the chunk
C17_StartedTogether ==
    (pc = "chunk" /\ pc' = "await") =>
        /\ Len(tasks') = Len(chunkList[chunkIdx'])
        /\ \A k \in 1..Len(tasks') :
              /\ tasks'[k] = NewTask(chunkList[chunkIdx'][k])
              /\ <<tile, chunkIdx', tasks'[k].id>> \in Range(started')

\* a sequence is being persisted only when its own fetch has returned
C17_SavedAfterOwnFetch ==
    pc = "save" =>
        /\ save.task \in Consumed
        /\ tasks[save.task].id = save.id
        /\ tasks[save.task].pending = {}
        /\ tasks[save.task].images = save.images
        /\ save.id \in dirs

\* a finished fetch is handed to _save_sequence whatever the state of the
\* other fetches of the chunk
C17_NoWaitForOthers ==
    (/\ pc = "await"
     /\ doneQueue /= <<>>
     /\ tasks[Head(doneQueue)].st = "done") => ENABLED AwaitTaskOk

\* C17: within a chunk all sequence fetches are started together, a
\* sequence is persisted only after its own fetch has completed, and a
\* completed fetch is persisted without waiting for the still-pending
\* fetches of the chunk.
C17_FetchPersistPipeline ==
    /\ [][C17_StartedTogether]_vars
    /\ [](C17_SavedAfterOwnFetch /\ C17_NoWaitForOthers)

C17_Witness ==
    /\ pc = "save"
    /\ save.pos > 0
    /\ InFlight /= {}
    /\ Len(tasks) = 2

\* ======================================================================
\* C18: what aget_sequence_data returns
\* ======================================================================

\* the fetches that have returned their records
Returned == {k \in 1..Len(tasks) : tasks[k].st \in {"done", "consumed"}}

\* a returned fetch has no image task left and one record per listed image
C18_ReturnedComplete ==
    \A k \in Returned :
        /\ tasks[k].pending = {}
        /\ Len(tasks[k].images) = tasks[k].total
        /\ NoDup(tasks[k].images)
        /\ Range(tasks[k].images) = 1..tasks[k].total

\* while a fetch collects, the record of the image task that has just
\* completed goes to the end of the records collected so far
C18_CompletionOrder ==
    \A k \in 1..Len(tasks) :
        (/\ chunkIdx' = chunkIdx /\ tile' = tile /\ run' = run
         /\ tasks[k].st = "images"
         /\ tasks'[k].st /= "failed"
         /\ tasks'[k].pending /= tasks[k].pending) =>
            \E i \in tasks[k].pending :
                /\ tasks'[k].pending = tasks[k].pending \ {i}
                /\ tasks'[k].images = Append(tasks[k].images, i)

\* C18: aget_sequence_data returns only after every per-image task of the
\* sequence has completed, and the records it returns are a permutation of
\* the listed images in the order the image tasks completed.
C18_RecordsWhenAllDone ==
    /\ []C18_ReturnedComplete
    /\ [][C18_CompletionOrder]_vars

C18_Witness ==
    \E k \in Returned : tasks[k].images = <<2, 1>>

\* ======================================================================
\* C19: the registry against what has been fetched and persisted
\* ======================================================================

\* ids whose aget_sequence_data has been started
FetchedIds ==
    {st[3] : st \in Range(started)} \cup {tasks[k].id : k \in 1..Len(tasks)}

\* ids with a sequence directory, or a file in it, on disk
PersistedIds ==
    dirs \cup Range(mkdirs) \cup Range(saved) \cup {f[1] : f \in files}

C19_RegistryCovers ==
    FetchedIds \cup PersistedIds \subseteq sequence_registry

C19_RegistryGrows == sequence_registry \subseteq sequence_registry'

\* C19: in every state of a run, aborted ones included, every sequence id
\* that has been fetched or has a directory on disk is in the registry, and
\* no step takes an id out of the registry.
C19_PersistedImpliesRegistered ==
    /\ []C19_RegistryCovers
    /\ [][C19_RegistryGrows]_vars

\* a run has aborted with a registered id that has nothing on disk
C19_Witness ==
    /\ pc = "aborted"
    /\ PersistedIds /= {}
    /\ sequence_registry \ PersistedIds /= {}
    /\ FetchedIds \ PersistedIds /= {}

====
